---- MODULE Spec2Model ----
(***************************************************************************)
(* Model of block_access.c: a PostgreSQL ClientAuthentication hook that     *)
(* parses two configuration strings (block_access.intervals and            *)
(* block_access.exclude_roles) and allows or denies a login by week day,    *)
(* time of day and role name.                                              *)
(*                                                                         *)
(* C strings are sequences of one-character strings.  A NULL pointer, a    *)
(* pointer into freed memory and the content of storage that was never     *)
(* written are the distinguished values NULLP, DANGLING and UNINIT.        *)
(***************************************************************************)
EXTENDS Integers, Sequences, FiniteSets, TLC

----------------------------------------------------------------------------
(* Pointers and memory                                                     *)

\* the NULL pointer
NULLP == <<"NULL">>
\* a pointer into a chunk that has been pfree'd
DANGLING == <<"DANGLING">>
\* an array slot that palloc() returned and nobody wrote
UNINIT == <<"UNINIT">>
\* a pointer value that addresses no mapped memory
WILD == <<"WILD">>

----------------------------------------------------------------------------
(* libc and PostgreSQL string primitives                                   *)

\* isspace(), restricted to the characters the inputs use
isspace(c) == c \in {" ", "\t"}

RECURSIVE SkipSpace(_)
SkipSpace(s) ==
    IF s # <<>> /\ isspace(Head(s)) THEN SkipSpace(Tail(s)) ELSE s

RECURSIVE DropSpace(_)
DropSpace(s) ==
    IF s # <<>> /\ isspace(s[Len(s)]) THEN DropSpace(SubSeq(s, 1, Len(s) - 1)) ELSE s

\* "if (end - start >= 0) ... else t = NULL"
NullIfEmpty(t) == IF t = <<>> THEN NULLP ELSE t

\* trim(): NULL for NULL and for a string with nothing but white space,
\* else a copy without the leading and trailing white space
trim(s) == IF s = NULLP THEN NULLP ELSE NullIfEmpty(DropSpace(SkipSpace(s)))

\* number of occurrences of character c in s: the counting loops
\* "for (ptr = s; *ptr != '\0'; ptr++) if (*ptr == c) n++"
RECURSIVE CountChar(_, _)
CountChar(s, c) ==
    IF s = <<>> THEN 0
    ELSE (IF Head(s) = c THEN 1 ELSE 0) + CountChar(Tail(s), c)

\* index of the first occurrence of c in s from k on, 0 when there is none
RECURSIVE FindChar(_, _, _)
FindChar(s, c, k) ==
    IF k > Len(s) THEN 0
    ELSE IF s[k] = c THEN k ELSE FindChar(s, c, k + 1)

\* strpbrk() with a one-character delimiter set
strpbrk(s, c) == FindChar(s, c, 1)

RECURSIVE SkipDelim(_, _)
SkipDelim(s, c) ==
    IF s # <<>> /\ Head(s) = c THEN SkipDelim(Tail(s), c) ELSE s

\* the token that starts at t and the position saved for the next call; p is
\* the index of the next delimiter
StrtokCut(t, p) ==
    IF p = 0 THEN [ret |-> t, save |-> <<>>]
    ELSE [ret |-> SubSeq(t, 1, p - 1), save |-> SubSeq(t, p + 1, Len(t))]

StrtokAt(t, c) ==
    IF t = <<>> THEN [ret |-> NULLP, save |-> <<>>] ELSE StrtokCut(t, strpbrk(t, c))

\* one call of libc strtok() on the string that starts at the saved position:
\* skip the leading delimiters, return the run up to the next delimiter (NULL
\* when nothing is left)
strtok(s, c) == StrtokAt(SkipDelim(s, c), c)

\* the tokens successive strtok() calls return until the first NULL
RECURSIVE strtok_loop(_, _)
RECURSIVE StrtokNext(_, _)
StrtokNext(r, c) ==
    IF r.ret = NULLP THEN <<>> ELSE <<r.ret>> \o strtok_loop(r.save, c)

strtok_loop(s, c) == StrtokNext(strtok(s, c), c)

Digit(c) ==
    CASE c = "0" -> 0 [] c = "1" -> 1 [] c = "2" -> 2 [] c = "3" -> 3
      [] c = "4" -> 4 [] c = "5" -> 5 [] c = "6" -> 6 [] c = "7" -> 7
      [] c = "8" -> 8 [] c = "9" -> 9 [] OTHER -> 0 - 1

RECURSIVE AtoiDigits(_, _)
AtoiDigits(s, acc) ==
    IF s = <<>> \/ Digit(Head(s)) < 0 THEN acc
    ELSE AtoiDigits(Tail(s), acc * 10 + Digit(Head(s)))

\* atoi(): skip white space, then the value of the leading decimal digits
atoi(s) == AtoiDigits(SkipSpace(s), 0)

----------------------------------------------------------------------------
(* Outcomes of the hook                                                    *)

\* the hook returned normally: the login goes on
Allow == "Allow"
\* elog(ERROR, "access denied because it is outside permitted date and time")
Deny == "Deny"
\* elog(ERROR, "number of intervals and exclude_roles elements do not match")
GroupCountMismatch == "GroupCountMismatch"
\* elog(ERROR, "parse week day failed"), "parse start time failed",
\* "parse end time failed"
MalformedInterval == "MalformedInterval"
\* elog(ERROR, "parse week days failed")
UnknownWeekday == "UnknownWeekday"
\* elog(ERROR, "parse start|end hour|minute failed: <string>")
MalformedTime == "MalformedTime"
\* elog(ERROR, "parse start|end hour failed: out of range")
HourOutOfRange == "HourOutOfRange"
\* elog(ERROR, "parse start|end minute failed: out of range")
MinuteOutOfRange == "MinuteOutOfRange"
\* the backend dereferenced NULL or an invalid pointer and died
Crash == "Crash"
\* status was not STATUS_OK: the hook checked nothing
NotChecked == "NotChecked"
\* no error so far
OK == "OK"

----------------------------------------------------------------------------
(* parse_interval                                                          *)

\* the chain of strcmp()s on a trimmed week day token; -1 when none matches
WeekdayOf(item_wd) ==
    CASE item_wd = <<"s", "u", "n">> -> 0
      [] item_wd = <<"m", "o", "n">> -> 1
      [] item_wd = <<"t", "u", "e">> -> 2
      [] item_wd = <<"w", "e", "d">> -> 3
      [] item_wd = <<"t", "h", "u">> -> 4
      [] item_wd = <<"f", "r", "i">> -> 5
      [] item_wd = <<"s", "a", "t">> -> 6
      [] OTHER -> 0 - 1

\* the while loop over strtok(item, ","): the week days stored so far, or the
\* failure that ends the loop.  trim() of a blank token is NULL and strcmp()
\* dereferences it.
RECURSIVE ParseWeekdays(_, _)
RECURSIVE WeekdayStore(_, _, _)
WeekdayStore(d, rest, acc) ==
    IF d < 0 THEN [err |-> UnknownWeekday, wday |-> acc]
    ELSE ParseWeekdays(rest, Append(acc, d))

WeekdayToken(item_wd, rest, acc) ==
    IF item_wd = NULLP THEN [err |-> Crash, wday |-> acc]
    ELSE WeekdayStore(WeekdayOf(item_wd), rest, acc)

ParseWeekdays(toks, acc) ==
    IF toks = <<>> THEN [err |-> OK, wday |-> acc]
    ELSE WeekdayToken(trim(Head(toks)), Tail(toks), acc)

\* n pointer slots nobody wrote
Unwritten(n) == [k \in 1..n |-> UNINIT]

\* an int slot that palloc() returned and nobody wrote (week days are 0..6)
UNINIT_INT == 0 - 1

\* n int slots nobody wrote
UnwrittenInts(n) == [k \in 1..n |-> UNINIT_INT]

\* the range checks on atoi() of the hour and of the minute token; ntok is
\* the number of ":" tokens
HourMinute(ntok, hour, minute) ==
    IF hour < 0 \/ hour > 23
    THEN [err |-> HourOutOfRange, hour |-> hour, minute |-> 0]
    ELSE IF ntok < 2 THEN [err |-> MalformedTime, hour |-> hour, minute |-> 0]
    ELSE IF minute < 0 \/ minute > 59
    THEN [err |-> MinuteOutOfRange, hour |-> hour, minute |-> minute]
    ELSE [err |-> OK, hour |-> hour, minute |-> minute]

TimeOfTokens(toks) ==
    IF Len(toks) < 1 THEN [err |-> MalformedTime, hour |-> 0, minute |-> 0]
    ELSE HourMinute(Len(toks), atoi(toks[1]),
                    IF Len(toks) < 2 THEN 0 ELSE atoi(toks[2]))

\* "HH:MM": pstrdup() of a NULL string dies; the first two ":" tokens are the
\* hour and the minute, anything after them is not looked at
ParseTime(str) ==
    IF str = NULLP THEN [err |-> Crash, hour |-> 0, minute |-> 0]
    ELSE TimeOfTokens(strtok_loop(str, ":"))

\* the value palloc0() gives one BAIntervalRole
ZeroRule ==
    [nwday |-> 0, wday |-> <<>>,
     start_time |-> [hour |-> 0, minute |-> 0],
     end_time |-> [hour |-> 0, minute |-> 0],
     nroles |-> 0, roles |-> <<>>]

\* the rule after the week days (wd), the start time (st) and the end time
\* (et) were parsed in this order; the first failure ends the parse
FilledInterval(interval, nwday, wd, st, et) ==
    [err |-> IF wd.err # OK THEN wd.err
             ELSE IF st.err # OK THEN st.err ELSE et.err,
     rule |-> [interval EXCEPT
                 !.nwday = nwday,
                 !.wday = wd.wday \o UnwrittenInts(nwday - Len(wd.wday)),
                 !.start_time = IF wd.err # OK THEN @
                                ELSE [hour |-> st.hour, minute |-> st.minute],
                 !.end_time = IF wd.err # OK \/ st.err # OK THEN @
                              ELSE [hour |-> et.hour, minute |-> et.minute]]]

\* lines 185-276: pstrdup(weekday_str) dies on NULL; nwday is the number of
\* commas plus one
IntervalOfStrings(interval, weekday_str, start_time_str, end_time_str) ==
    IF weekday_str = NULLP THEN [err |-> Crash, rule |-> interval]
    ELSE FilledInterval(interval, 1 + CountChar(weekday_str, ","),
                        ParseWeekdays(strtok_loop(weekday_str, ","), <<>>),
                        ParseTime(start_time_str), ParseTime(end_time_str))

\* lines 163-179: three strtok(.., "-") tokens are needed, further ones are
\* not asked for
IntervalOfParts(interval, parts) ==
    IF Len(parts) < 3 THEN [err |-> MalformedInterval, rule |-> interval]
    ELSE IntervalOfStrings(interval, trim(parts[1]), trim(parts[2]), trim(parts[3]))

\* parse_interval(interval, s): err is OK and rule the filled rule, or err is
\* the failure and rule what had been stored before it.  pstrdup(s) dies on NULL.
parse_interval(interval, s) ==
    IF s = NULLP THEN [err |-> Crash, rule |-> interval]
    ELSE IntervalOfParts(interval, strtok_loop(s, "-"))

----------------------------------------------------------------------------
(* parse_roles                                                             *)

\* item[i++] = trim(ptr) for every strtok() token
TrimAll(toks) == [k \in 1..Len(toks) |-> trim(toks[k])]

\* the roles array: the slots of the tokens strtok() returned are written
StoredRoles(interval, nroles, stored) ==
    [interval EXCEPT !.nroles = nroles,
                     !.roles = stored \o Unwritten(nroles - Len(stored))]

\* parse_roles(interval, s): a NULL group gives no roles; otherwise nroles is
\* the number of commas plus one
parse_roles(interval, s) ==
    IF s = NULLP THEN [interval EXCEPT !.nroles = 0, !.roles = <<>>]
    ELSE StoredRoles(interval, 1 + CountChar(s, ","), TrimAll(strtok_loop(s, ",")))

----------------------------------------------------------------------------
(* strtok_all and parse_options                                            *)

StrtokAllCut(s, p) ==
    IF p # 0 THEN [ret |-> SubSeq(s, 1, p - 1), src |-> SubSeq(s, p + 1, Len(s))]
    ELSE IF s # <<>> THEN [ret |-> s, src |-> NULLP]
    ELSE [ret |-> NULLP, src |-> s]

StrtokAllAt(s) ==
    IF s = NULLP THEN [ret |-> NULLP, src |-> NULLP]
    ELSE StrtokAllCut(s, strpbrk(s, ";"))

\* one call of strtok_all(str, ";") with the static cursor src: the token
\* returned (NULL, or a string that may be empty) and the new cursor.  When
\* nothing but the terminating NUL is left the cursor is not reset.
strtok_all(str, src) == StrtokAllAt(IF str # NULLP THEN str ELSE src)

\* "while (ptr) { item[i++] = trim(ptr); ptr = strtok_all(NULL, ";"); }"
\* r is the result of the call before the loop test
RECURSIVE strtok_all_loop(_, _)
strtok_all_loop(r, item) ==
    IF r.ret = NULLP THEN [item |-> item, src |-> r.src]
    ELSE strtok_all_loop(strtok_all(NULLP, r.src), Append(item, trim(r.ret)))

\* item = palloc0(n * sizeof(char *)) with the first slots overwritten
ZeroPadded(stored, n) ==
    stored \o [k \in 1..(n - Len(stored)) |-> NULLP]

\* "for (i = 0; i < n; i++) parse_interval(&ir[i], item[i])": stops at the
\* first failure
RECURSIVE ParseIntervals(_, _, _)
RECURSIVE ParsedInterval(_, _, _, _)
ParsedInterval(ir, item, i, r) ==
    IF r.err # OK THEN [err |-> r.err, ir |-> [ir EXCEPT ![i] = r.rule]]
    ELSE ParseIntervals([ir EXCEPT ![i] = r.rule], item, i + 1)

ParseIntervals(ir, item, i) ==
    IF i > Len(item) THEN [err |-> OK, ir |-> ir]
    ELSE ParsedInterval(ir, item, i, parse_interval(ir[i], item[i]))

\* "for (i = 0; i < n; i++) parse_roles(&ir[i], item[i])"
ParseRoles(ir, item) == [i \in 1..Len(ir) |-> parse_roles(ir[i], item[i])]

\* a cursor that is not NULL after the string it walked has been pfree'd
AfterFree(cursor) == IF cursor = NULLP THEN NULLP ELSE DANGLING

\* lines 386-396: the roles are parsed, then pfree(roles_str), which dies
\* when roles_str is NULL
RolesOfItems(ir, igroups, roles_str, rgroups, left) ==
    [err |-> IF roles_str = NULLP THEN Crash ELSE OK,
     igroups |-> igroups, rgroups |-> rgroups, ir |-> ParseRoles(ir, rgroups),
     src |-> left, olds |-> DANGLING]

\* lines 376-384: rl is the result of the strtok_all loop; storing more than
\* n items runs over the end of the array
RolesSplit(ir, n, igroups, roles_str, rl) ==
    IF Len(rl.item) > n
    THEN [err |-> Crash, igroups |-> igroups, rgroups |-> rl.item, ir |-> ir,
          src |-> AfterFree(rl.src), olds |-> DANGLING]
    ELSE RolesOfItems(ir, igroups, roles_str, ZeroPadded(rl.item, n),
                      AfterFree(rl.src))

\* lines 366-378: pi is the result of parsing the interval items; an
\* elog(ERROR) there leaves parse_options before strtok_all is called
IntervalsParsed(pi, n, igroups, roles_str, rcursor, src) ==
    IF pi.err # OK
    THEN [err |-> pi.err, igroups |-> igroups, rgroups |-> <<>>, ir |-> pi.ir,
          src |-> src, olds |-> DANGLING]
    ELSE RolesSplit(pi.ir, n, igroups, roles_str,
                    strtok_all_loop(strtok_all(roles_str, rcursor), <<>>))

\* lines 357-364: istored are the trimmed strtok() tokens of the interval
\* string
IntervalsSplit(ir, n, istored, roles_str, rcursor, src) ==
    IF Len(istored) > n
    THEN [err |-> Crash, igroups |-> istored, rgroups |-> <<>>, ir |-> ir,
          src |-> src, olds |-> DANGLING]
    ELSE IntervalsParsed(ParseIntervals(ir, ZeroPadded(istored, n), 1), n,
                         ZeroPadded(istored, n), roles_str, rcursor, src)

\* istart is where strtok(intervals_str, ";") starts: with a NULL string libc
\* goes on from its saved position, and dereferences it when that is NULL
ParseOptionsAt(ir, n, istart, roles_str, rcursor, src, olds) ==
    IF istart = NULLP
    THEN [err |-> Crash, igroups |-> <<>>, rgroups |-> <<>>, ir |-> ir,
          src |-> src, olds |-> olds]
    ELSE IntervalsSplit(ir, n, TrimAll(strtok_loop(istart, ";")), roles_str,
                        rcursor, src)

ParseOptionsOf(ir, n, intervals_str, roles_str, src, olds, freed) ==
    ParseOptionsAt(ir, n,
                   IF intervals_str # NULLP THEN intervals_str
                   ELSE IF olds = DANGLING THEN freed ELSE NULLP,
                   roles_str,
                   IF src = DANGLING THEN freed ELSE src,
                   src, olds)

\* parse_options(ir, n) with the two GUC strings, the static cursor src of
\* strtok_all, the saved position olds of libc strtok, and freed, the bytes a
\* read through a dangling cursor finds.
\*   igroups, rgroups: the two item arrays; ir: the rules; src, olds: the
\*   cursors when the function is left; err: OK or the way it was left
parse_options(ir, n, interval_time, exclude_roles, src, olds, freed) ==
    ParseOptionsOf(ir, n, trim(interval_time), trim(exclude_roles), src, olds, freed)

----------------------------------------------------------------------------
(* block_access_checks                                                     *)

STATUS_OK == "STATUS_OK"
STATUS_ERROR == "STATUS_ERROR"

\* what a read of storage nobody wrote finds: ub.int in an int slot, ub.ptr in
\* a pointer slot
ReadInt(v, ub) == IF v = UNINIT_INT THEN ub.int ELSE v
ReadPtr(v, ub) == IF v = UNINIT THEN ub.ptr ELSE v

\* "intervals = palloc0(nintervals * sizeof(BAIntervalRole))"
ZeroRules(n) == [k \in 1..n |-> ZeroRule]

\* the result of parse_options together with the number of intervals
Parsed(n, po) ==
    [err |-> po.err, n |-> n, igroups |-> po.igroups, rgroups |-> po.rgroups,
     ir |-> po.ir, src |-> po.src, olds |-> po.olds]

\* CheckCounts with "nintervals > nroles" for "nintervals != nroles"
CheckCountsGreater(nintervals, nroles, interval_time, exclude_roles, src, olds, freed) ==
    IF nintervals > nroles
    THEN [err |-> GroupCountMismatch, n |-> nintervals, igroups |-> <<>>,
          rgroups |-> <<>>, ir |-> <<>>, src |-> src, olds |-> olds]
    ELSE Parsed(nintervals,
                parse_options(ZeroRules(nintervals), nintervals, interval_time,
                              exclude_roles, src, olds, freed))

\* "if (nintervals != nroles) elog(ERROR, ...)", then parse_options
CheckCounts(nintervals, nroles, interval_time, exclude_roles, src, olds, freed) ==
    IF nintervals # nroles
    THEN [err |-> GroupCountMismatch, n |-> nintervals, igroups |-> <<>>,
          rgroups |-> <<>>, ir |-> <<>>, src |-> src, olds |-> olds]
    ELSE Parsed(nintervals,
                parse_options(ZeroRules(nintervals), nintervals, interval_time,
                              exclude_roles, src, olds, freed))

\* lines 441-464: count the groups of both strings, compare the counts, then
\* parse.  "for (ptr = exclude_roles; *ptr != '\0'; ptr++)" reads *NULL when
\* the GUC has no value.
ParseStage(interval_time, exclude_roles, src, olds, freed) ==
    IF exclude_roles = NULLP
    THEN [err |-> Crash, n |-> 0, igroups |-> <<>>, rgroups |-> <<>>, ir |-> <<>>,
          src |-> src, olds |-> olds]
    ELSE CheckCounts(1 + CountChar(interval_time, ";"),
                     1 + CountChar(exclude_roles, ";"),
                     interval_time, exclude_roles, src, olds, freed)

\* minutes since midnight
Minutes(t) == t.hour * 60 + t.minute

\* Outside with "<=" and ">=": the boundaries of the interval are excluded
OutsideExclusive(n1, s1, s2) == n1 <= s1 \/ n1 >= s2

\* "if (n1 < s1 || n1 > s2)": now is outside interval time
Outside(n1, s1, s2) == n1 < s1 \/ n1 > s2

\* "for (j = 0; j < nwday; j++) if (wday[j] == now->tm_wday)": some entry of
\* the rule is the current week day
SameWeekDay(rule, now, ub) ==
    \E j \in 1..rule.nwday : ReadInt(rule.wday[j], ub) = now.wday

\* "for (k = 0; k < nroles; k++) if (strcmp(roles[k], user_name) == 0)":
\* "found", "missing", or Crash when strcmp() is handed NULL or a wild pointer
RECURSIVE RoleFound(_, _, _, _)
RECURSIVE RoleCompared(_, _, _, _, _)
RoleCompared(r, rule, user_name, k, ub) ==
    IF r = NULLP \/ r = WILD THEN Crash
    ELSE IF r = user_name THEN "found"
    ELSE RoleFound(rule, user_name, k + 1, ub)

RoleFound(rule, user_name, k, ub) ==
    IF k > rule.nroles THEN "missing"
    ELSE RoleCompared(ReadPtr(rule.roles[k], ub), rule, user_name, k, ub)

\* "for (j = 0; j < nroles; j++) if (roles[j]) pfree(roles[j])": pfree() of a
\* wild pointer faults; pfree() of a pointer left over in the slot from an
\* earlier allocation frees a chunk twice and goes on
FreeRoles(rule, ub) ==
    IF \E j \in 1..rule.nroles : ReadPtr(rule.roles[j], ub) = WILD THEN Crash ELSE OK

\* "bailout = true; break;": the roles of rule i are freed and the outer loop
\* ends at its next test; "access allowed"
Bailout(i, freed) ==
    [verdict |-> IF freed = Crash THEN Crash ELSE Allow, consulted |-> {i}]

\* lines 502-519: now is outside the interval of rule i
OutsideInterval(i, found, rule, ub) ==
    IF found = Crash THEN [verdict |-> Crash, consulted |-> {i}]
    ELSE IF found = "missing" THEN [verdict |-> Deny, consulted |-> {i}]
    ELSE Bailout(i, FreeRoles(rule, ub))

\* lines 490-524: rule i lists the current week day
FoundWeekDay(i, rule, user_name, n1, ub) ==
    IF Outside(n1, Minutes(rule.start_time), Minutes(rule.end_time))
    THEN OutsideInterval(i, RoleFound(rule, user_name, 1, ub), rule, ub)
    ELSE Bailout(i, FreeRoles(rule, ub))

\* rule i does not list the current week day: its roles are freed and the
\* search goes on with rest, the result for the rules after i
NextInterval(i, freed, rest) ==
    IF freed = Crash THEN [verdict |-> Crash, consulted |-> {i}]
    ELSE [verdict |-> rest.verdict, consulted |-> {i} \cup rest.consulted]

\* the search loop of lines 471-531 from rule i on, bailout being false:
\* the verdict and the rules that were looked at.  When the loop runs out of
\* rules the hook says "access allowed".
RECURSIVE ScanIntervals(_, _, _, _, _)
\* ScanInterval without the bailout after a denial: a rule that denies hands
\* the decision to the rules after it
ScanIntervalFallThrough(intervals, i, user_name, now, ub) ==
    IF SameWeekDay(intervals[i], now, ub)
       /\ FoundWeekDay(i, intervals[i], user_name, Minutes(now), ub).verdict # Deny
    THEN FoundWeekDay(i, intervals[i], user_name, Minutes(now), ub)
    ELSE NextInterval(i, FreeRoles(intervals[i], ub),
                      ScanIntervals(intervals, i + 1, user_name, now, ub))

ScanInterval(intervals, i, user_name, now, ub) ==
    IF SameWeekDay(intervals[i], now, ub)
    THEN FoundWeekDay(i, intervals[i], user_name, Minutes(now), ub)
    ELSE NextInterval(i, FreeRoles(intervals[i], ub),
                      ScanIntervals(intervals, i + 1, user_name, now, ub))

\* ScanIntervals denying when no rule lists the week day
ScanIntervalsDenyByDefault(intervals, i, user_name, now, ub) ==
    IF i > Len(intervals) THEN [verdict |-> Deny, consulted |-> {}]
    ELSE ScanInterval(intervals, i, user_name, now, ub)

ScanIntervals(intervals, i, user_name, now, ub) ==
    IF i > Len(intervals) THEN [verdict |-> Allow, consulted |-> {}]
    ELSE ScanInterval(intervals, i, user_name, now, ub)

\* the hook's result after the search sc over the rules of pre
Searched(pre, sc) ==
    [outcome |-> sc.verdict, parsed |-> TRUE, intervals |-> pre.ir,
     igroups |-> pre.igroups, rgroups |-> pre.rgroups, consulted |-> sc.consulted,
     src |-> pre.src, olds |-> pre.olds]

\* block_access_checks(port, status), pre being the result of lines 441-464
\* for the current GUC strings: the outcome, the rules, the item arrays and
\* the cursors left behind; parsed says that parse_options returned and the
\* search loop was entered
block_access_checks(status, user_name, now, interval_time, pre, src, olds, ub) ==
    IF status # STATUS_OK \/ interval_time = NULLP
    THEN [outcome |-> IF status = STATUS_OK THEN Allow ELSE NotChecked,
          parsed |-> FALSE, intervals |-> <<>>, igroups |-> <<>>, rgroups |-> <<>>,
          consulted |-> {}, src |-> src, olds |-> olds]
    ELSE IF pre.err # OK
    THEN [outcome |-> pre.err, parsed |-> FALSE, intervals |-> pre.ir,
          igroups |-> pre.igroups, rgroups |-> pre.rgroups, consulted |-> {},
          src |-> pre.src, olds |-> pre.olds]
    ELSE Searched(pre, ScanIntervals(pre.ir, 1, user_name, now, ub))

----------------------------------------------------------------------------
(* The values the model draws its inputs from                              *)

\* number of ";"-separated groups in a configuration string, at most
MaxGroups == 2
\* number of ","-separated week day tokens in a group, at most
MaxWd == 3
\* number of ","-separated role tokens in a group, at most
MaxRoles == 3
\* number of "-"-separated parts in an interval group, at most
MaxParts == 4

MON == <<"m", "o", "n">>
SAT == <<"s", "a", "t">>
MUN == <<"m", "u", "n">>
T0800 == <<"0", "8", ":", "0", "0">>
T1200 == <<"1", "2", ":", "0", "0">>
T1800 == <<"1", "8", ":", "0", "0">>
T2400 == <<"2", "4", ":", "0", "0">>
T0860 == <<"0", "8", ":", "6", "0">>
T08 == <<"0", "8">>
BLANK == <<" ">>

RECURSIVE Join(_, _)
Join(parts, sep) ==
    IF Len(parts) = 0 THEN <<>>
    ELSE IF Len(parts) = 1 THEN parts[1]
    ELSE parts[1] \o <<sep>> \o Join(Tail(parts), sep)

\* the sequences over S of length lo..hi
Seqs(S, lo, hi) == UNION {[1..k -> S] : k \in lo..hi}

\* l has at most one element outside Good
FewOdd(l, Good) == Cardinality({k \in 1..Len(l) : l[k] \notin Good}) <= 1

\* week day lists: valid names, an unknown name, an empty and a blank token
WdLists ==
    {Join(l, ",") : l \in {x \in Seqs({MON, SAT, MUN, <<>>, BLANK}, 1, MaxWd) :
                             FewOdd(x, {MON, SAT})}}

\* start and end times: valid ones, a bad hour, a bad minute, no minute, blank
TimePairs ==
    {x \in Seqs({T0800, T1200, T2400, T0860, T08, BLANK}, 2, 2) :
        FewOdd(x, {T0800, T1200})}

\* groups of 1..MaxParts "-"-separated parts
Shapes ==
    {Join([k \in 1..n |-> IF k = 1 THEN MON ELSE IF k = 2 THEN T0800
                          ELSE IF k = 3 THEN T1200 ELSE T1800], "-") : n \in 1..MaxParts}

Spaced == <<" ">> \o MON \o <<" ", "-", " ">> \o T0800 \o <<" ", "-", " ">> \o T1200

\* one interval group, well formed or not
IntervalGroups ==
    {Join(<<w, T0800, T1200>>, "-") : w \in WdLists}
        \cup {Join(<<MON, p[1], p[2]>>, "-") : p \in TimePairs}
        \cup Shapes \cup {<<>>, BLANK, Spaced}

\* the groups that strings of several groups are made of
PlainIntervalGroups ==
    {Join(<<MON, T0800, T1200>>, "-"), Join(<<MON, T1200, T1800>>, "-"),
     Join(<<SAT, T0800, T1200>>, "-"), <<>>}

PlainIntervalSpecs ==
    {Join(l, ";") : l \in Seqs(PlainIntervalGroups, 1, MaxGroups)}

IntervalSpecs == IntervalGroups \cup PlainIntervalSpecs

\* role names
Users == {<<"a">>, <<"z">>}

\* one exclusion group: names, empty and blank tokens
RoleGroups == {Join(l, ",") : l \in Seqs(Users \cup {<<>>, BLANK}, 1, MaxRoles)}

PlainRoleSpecs ==
    {Join(l, ";") : l \in Seqs(Users \cup {<<>>}, 1, MaxGroups)}

\* the pairs of GUC values; NULL is the boot value of both
Configs ==
    (IntervalSpecs \X PlainRoleSpecs) \cup (PlainIntervalGroups \X RoleGroups)
        \cup ({NULLP} \X {NULLP, <<"a">>}) \cup ({Join(<<MON, T0800, T1200>>, "-")} \X {NULLP})

\* localtime(): Monday and Tuesday, around the boundaries of the windows
Nows ==
    {[wday |-> d, hour |-> t[1], minute |-> t[2]] :
        d \in {1, 2}, t \in {<<7, 59>>, <<8, 0>>, <<12, 0>>, <<12, 1>>}}

NoTime == [wday |-> 0, hour |-> 0, minute |-> 0]

\* the arguments and the clock of one call of the hook
Calls ==
    [status : {STATUS_OK}, user_name : Users, now : Nows]
        \cup [status : {STATUS_ERROR}, user_name : {<<"a">>}, now : {NoTime}]

\* what a read of an int nobody wrote can find
GarbageInts == {1, 99}
\* what a read of a pointer nobody wrote can find: NULL, a wild pointer, or
\* the address of a string an earlier allocation left there
GarbagePtrs == {NULLP, WILD, <<"z">>}
\* what a read through a cursor into freed memory can find
FreedBytes == {<<>>, <<"z">>}

\* the reads of undefined storage the call can make decide which of the
\* choices above it depends on
HasUnwrittenInt(ir) ==
    \E i \in 1..Len(ir) : \E j \in 1..Len(ir[i].wday) : ir[i].wday[j] = UNINIT_INT
HasUnwrittenPtr(ir) ==
    \E i \in 1..Len(ir) : \E j \in 1..Len(ir[i].roles) : ir[i].roles[j] = UNINIT
Garbage(ir) ==
    [int : IF HasUnwrittenInt(ir) THEN GarbageInts ELSE {0},
     ptr : IF HasUnwrittenPtr(ir) THEN GarbagePtrs ELSE {NULLP}]
Freed(it, er, cursor, saved) ==
    IF (cursor = DANGLING /\ trim(er) = NULLP) \/ (saved = DANGLING /\ trim(it) = NULLP)
    THEN FreedBytes ELSE {<<>>}

----------------------------------------------------------------------------
(* The state machine: one backend process                                  *)

VARIABLES
    interval_time,  \* GUC block_access.intervals
    exclude_roles,  \* GUC block_access.exclude_roles
    src,            \* the static cursor of strtok_all
    olds,           \* the saved position of libc strtok
    phase,          \* "unset", "ready" (configured) or "done" (hook has run)
    call,           \* the hook's arguments and the clock
    ub,             \* what the reads of undefined storage found
    outcome,        \* how the hook ended
    parsed,         \* parse_options returned: the search loop ran on intervals
    intervals,      \* the rules parse_options built
    igroups,        \* the item array of the interval string
    rgroups,        \* the item array of the exclusion string
    consulted,      \* the rules the search loop looked at
    csrc,           \* two threads of one process: the static cursor of strtok_all
    cowner,         \* the thread whose roles_str csrc points into, or 0
    cpc,            \* where each thread is in lines 376-396 of parse_options
    cstr,           \* each thread's roles_str
    cptr,           \* each thread's ptr
    citem           \* each thread's item array, as far as it is filled

bvars == <<interval_time, exclude_roles, src, olds, phase, call, ub, outcome, parsed,
           intervals, igroups, rgroups, consulted>>
cvars == <<csrc, cowner, cpc, cstr, cptr, citem>>
vars == <<bvars, cvars>>

Threads == {1, 2}

\* no thread is in parse_options
NoThreads ==
    /\ csrc = NULLP
    /\ cowner = 0
    /\ cpc = [t \in Threads |-> "out"]
    /\ cstr = [t \in Threads |-> NULLP]
    /\ cptr = [t \in Threads |-> NULLP]
    /\ citem = [t \in Threads |-> <<>>]

NoCall == [status |-> STATUS_OK, user_name |-> <<>>, now |-> NoTime]
NoGarbage == [int |-> 0, ptr |-> NULLP, freed |-> <<>>]

\* _PG_init: both GUCs are defined with the boot value NULL
Loaded ==
    /\ interval_time = NULLP
    /\ exclude_roles = NULLP
    /\ src = NULLP
    /\ olds = NULLP
    /\ phase = "unset"
    /\ call = NoCall
    /\ ub = NoGarbage
    /\ outcome = OK
    /\ parsed = FALSE
    /\ intervals = <<>>
    /\ igroups = <<>>
    /\ rgroups = <<>>
    /\ consulted = {}

Init == Loaded /\ NoThreads

\* the configuration file is read: both GUCs get their values
SetConfig ==
    /\ phase = "unset"
    /\ \E c \in Configs :
        /\ interval_time' = c[1]
        /\ exclude_roles' = c[2]
    /\ phase' = "ready"
    /\ UNCHANGED <<src, olds, call, ub, outcome, parsed, intervals, igroups,
                   rgroups, consulted>>
    /\ UNCHANGED cvars

\* the hook returns (or is left by elog(ERROR), or the backend dies) with r
Returned(c, g, f, r) ==
    /\ call' = c
    /\ ub' = [int |-> g.int, ptr |-> g.ptr, freed |-> f]
    /\ outcome' = r.outcome
    /\ parsed' = r.parsed
    /\ intervals' = r.intervals
    /\ igroups' = r.igroups
    /\ rgroups' = r.rgroups
    /\ consulted' = r.consulted
    /\ src' = r.src
    /\ olds' = r.olds

Authenticate(f, pre) ==
    \E c \in Calls, g \in Garbage(pre.ir) :
        Returned(c, g, f,
                 block_access_checks(c.status, c.user_name, c.now, interval_time, pre,
                                     src, olds, g))

\* a client authenticates: ClientAuthentication_hook = block_access_checks
ClientAuthentication ==
    /\ phase = "ready"
    /\ \E f \in Freed(interval_time, exclude_roles, src, olds) :
        Authenticate(f, ParseStage(interval_time, exclude_roles, src, olds, f))
    /\ phase' = "done"
    /\ UNCHANGED <<interval_time, exclude_roles>>
    /\ UNCHANGED cvars

\* the call is over.  A backend that crashed is replaced by a new process,
\* whose statics are those of the program image.
Finish ==
    /\ phase = "done"
    /\ phase' = "unset"
    /\ interval_time' = NULLP
    /\ exclude_roles' = NULLP
    /\ src' = IF outcome = Crash THEN NULLP ELSE src
    /\ olds' = IF outcome = Crash THEN NULLP ELSE olds
    /\ call' = NoCall
    /\ ub' = NoGarbage
    /\ outcome' = OK
    /\ parsed' = FALSE
    /\ intervals' = <<>>
    /\ igroups' = <<>>
    /\ rgroups' = <<>>
    /\ consulted' = {}
    /\ UNCHANGED cvars

Next == SetConfig \/ ClientAuthentication \/ Finish

Spec == Init /\ [][Next]_vars

----------------------------------------------------------------------------
(* Two threads of one process in the strtok_all loop of parse_options      *)

\* the trimmed exclusion strings the threads work on
ConcStrings == {trim(s) : s \in PlainRoleSpecs}

\* both threads are about to call strtok_all(roles_str, ";")
InitConc ==
    /\ Loaded
    /\ csrc = NULLP
    /\ cowner = 0
    /\ cpc = [t \in Threads |-> "call"]
    /\ cstr \in [Threads -> ConcStrings]
    /\ cptr = [t \in Threads |-> NULLP]
    /\ citem = [t \in Threads |-> <<>>]

\* the bytes a call of strtok_all(str, ";") can find at its starting point
CursorBytes(str) ==
    IF str # NULLP THEN {str}
    ELSE IF csrc = DANGLING THEN FreedBytes ELSE {csrc}

\* thread t's call strtok_all(str, ";") returned r: ptr is the token, and the
\* static cursor is r.src, in the string it was in before unless str is given
Called(t, str, r) ==
    /\ cptr' = [cptr EXCEPT ![t] = r.ret]
    /\ csrc' = IF r.src = NULLP THEN NULLP
               ELSE IF str = NULLP /\ csrc = DANGLING THEN DANGLING
               ELSE r.src
    /\ cowner' = IF r.src = NULLP THEN 0
                 ELSE IF str # NULLP THEN t
                 ELSE cowner

\* "item = palloc0(n * sizeof(char *))": n is the number of groups counted
\* in the thread's string
ItemSlots(str) == IF str = NULLP THEN 1 ELSE 1 + CountChar(str, ";")

\* "ptr = strtok_all(roles_str, ";")"
ConcEnter(t) ==
    /\ cpc[t] = "call"
    /\ \E s \in CursorBytes(cstr[t]) : Called(t, cstr[t], strtok_all(cstr[t], s))
    /\ cpc' = [cpc EXCEPT ![t] = "loop"]
    /\ UNCHANGED <<cstr, citem>>
    /\ UNCHANGED bvars

\* "while (ptr) { item[i++] = trim(ptr); ptr = strtok_all(NULL, ";"); }": one
\* round of the loop; a store past the end of item ends the process
ConcFetch(t) ==
    /\ cpc[t] = "loop"
    /\ cptr[t] # NULLP
    /\ IF Len(citem[t]) >= ItemSlots(cstr[t])
       THEN /\ cpc' = [cpc EXCEPT ![t] = "overrun"]
            /\ UNCHANGED <<csrc, cowner, cptr, citem>>
       ELSE /\ citem' = [citem EXCEPT ![t] = Append(@, trim(cptr[t]))]
            /\ \E s \in CursorBytes(NULLP) : Called(t, NULLP, strtok_all(NULLP, s))
            /\ UNCHANGED cpc
    /\ UNCHANGED cstr
    /\ UNCHANGED bvars

\* the loop ends and the thread goes on to "pfree(roles_str)": a cursor into
\* its string is left dangling
ConcLeave(t) ==
    /\ cpc[t] = "loop"
    /\ cptr[t] = NULLP
    /\ cpc' = [cpc EXCEPT ![t] = "done"]
    /\ csrc' = IF cowner = t THEN DANGLING ELSE csrc
    /\ cowner' = IF cowner = t THEN 0 ELSE cowner
    /\ UNCHANGED <<cstr, cptr, citem>>
    /\ UNCHANGED bvars

NextConc == \E t \in Threads : ConcEnter(t) \/ ConcFetch(t) \/ ConcLeave(t)

SpecConc == InitConc /\ [][NextConc]_vars

----------------------------------------------------------------------------
(* The notions of the specification                                        *)

\* the segments of s between the occurrences of c, empty ones included
RECURSIVE SplitAll(_, _)
RECURSIVE SplitFrom(_, _, _)
SplitFrom(s, c, k) ==
    IF k > Len(s) THEN <<s>>
    ELSE IF s[k] = c
         THEN <<SubSeq(s, 1, k - 1)>> \o SplitAll(SubSeq(s, k + 1, Len(s)), c)
    ELSE SplitFrom(s, c, k + 1)

SplitAll(s, c) == SplitFrom(s, c, 1)

\* the groups of a configuration string: its ";" segments, each trimmed
\* (NULL stands for an empty or blank one)
Groups(s) == TrimAll(SplitAll(s, ";"))

\* rule r lists week day d
Lists(r, d) == \E j \in 1..Len(r.wday) : r.wday[j] = d

\* the rules of the policy that list week day d
Listing(policy, d) == {i \in 1..Len(policy) : Lists(policy[i], d)}

\* the first of a non-empty set of rule numbers
FirstOf(S) == CHOOSE i \in S : \A j \in S : i <= j

\* principal is one of the excluded principals of rule r
Excluded(r, principal) == \E k \in 1..Len(r.roles) : r.roles[k] = principal

\* n1 is inside the closed window of rule r
Inside(r, n1) ==
    /\ r.start_time.hour * 60 + r.start_time.minute <= n1
    /\ n1 <= r.end_time.hour * 60 + r.end_time.minute

\* the verdict of rule r alone
RuleVerdict(r, principal, n1) ==
    IF Inside(r, n1) \/ Excluded(r, principal) THEN Allow ELSE Deny

\* a policy as the data model describes it: every rule has week days in 0..6
\* and principal names
ValidRule(r) ==
    /\ r.nwday >= 1
    /\ Len(r.wday) = r.nwday
    /\ \A j \in 1..Len(r.wday) : r.wday[j] \in 0..6
    /\ Len(r.roles) = r.nroles
    /\ \A k \in 1..Len(r.roles) : r.roles[k] \notin {NULLP, UNINIT}

ValidPolicy(policy) == \A i \in 1..Len(policy) : ValidRule(policy[i])

\* the hook ran its checks
Checked == phase = "done" /\ call.status = STATUS_OK /\ interval_time # NULLP

\* the hook built a valid policy and evaluated it
Evaluated == Checked /\ parsed /\ ValidPolicy(intervals)

Today == call.now.wday
N1 == call.now.hour * 60 + call.now.minute

----------------------------------------------------------------------------
(* The claims                                                              *)

\* C1: for a valid policy, the verdict is that of the first rule listing the
\* current week day: Allow when s1 <= n1 <= s2 (both boundaries included),
\* otherwise Allow exactly when the principal is one of its excluded
\* principals, and Deny when it is not.
C1_FirstRuleVerdict ==
    (Evaluated /\ Listing(intervals, Today) # {})
        => outcome = RuleVerdict(intervals[FirstOf(Listing(intervals, Today))],
                                 call.user_name, N1)

\* C1 witness: at the end boundary of the window of the first listing rule a
\* principal that is not excluded is allowed.
C1_Witness ==
    /\ Evaluated
    /\ Listing(intervals, Today) # {}
    /\ N1 = 12 * 60
    /\ intervals[FirstOf(Listing(intervals, Today))].end_time = [hour |-> 12, minute |-> 0]
    /\ ~Excluded(intervals[FirstOf(Listing(intervals, Today))], call.user_name)
    /\ outcome = Allow

\* C2: when several rules list the current week day, no rule after the first
\* of them is looked at, a principal outside the first one's window that is
\* not in its exclusion list is denied whatever the later rules say, and a
\* principal inside the first one's window is allowed.
C2_FirstMatchWins ==
    (Evaluated /\ Cardinality(Listing(intervals, Today)) >= 2)
        => /\ \A i \in consulted : i <= FirstOf(Listing(intervals, Today))
           /\ (~Inside(intervals[FirstOf(Listing(intervals, Today))], N1)
               /\ ~Excluded(intervals[FirstOf(Listing(intervals, Today))],
                            call.user_name))
                 => outcome = Deny
           /\ Inside(intervals[FirstOf(Listing(intervals, Today))], N1)
                 => outcome = Allow

\* C2 witness: two rules list Monday; now is outside the window of the first
\* and inside the window of the second, the principal is excluded by the
\* second only, and the login is denied.
C2_Witness ==
    /\ Evaluated
    /\ Listing(intervals, Today) = {1, 2}
    /\ ~Inside(intervals[1], N1)
    /\ Inside(intervals[2], N1)
    /\ ~Excluded(intervals[1], call.user_name)
    /\ Excluded(intervals[2], call.user_name)
    /\ outcome = Deny

\* C3: when no rule of a valid policy lists the current week day, and when
\* there is no interval configuration at all, the verdict is Allow for every
\* principal and time of day.
C3_NoMatchAllows ==
    /\ (Evaluated /\ Listing(intervals, Today) = {}) => outcome = Allow
    /\ (phase = "done" /\ call.status = STATUS_OK /\ interval_time = NULLP)
          => outcome = Allow

\* C3 witness: a policy with rules, none for Tuesday; a principal that no
\* rule excludes logs in outside every window and is allowed.
C3_Witness ==
    /\ Evaluated
    /\ intervals # <<>>
    /\ Listing(intervals, Today) = {}
    /\ \A i \in 1..Len(intervals) :
          ~Inside(intervals[i], N1) /\ ~Excluded(intervals[i], call.user_name)
    /\ outcome = Allow

\* C5: when both configuration strings are set and their numbers of
\* ";"-separated groups differ, the hook fails with the group count error
\* before anything is parsed or evaluated; when the numbers are equal it
\* never fails with that error.
C5_GroupCountCheck ==
    (Checked /\ exclude_roles # NULLP)
        => IF Len(SplitAll(interval_time, ";")) # Len(SplitAll(exclude_roles, ";"))
           THEN /\ outcome = GroupCountMismatch
                /\ ~parsed
                /\ igroups = <<>> /\ rgroups = <<>> /\ intervals = <<>>
                /\ consulted = {}
           ELSE outcome # GroupCountMismatch

\* C5 witness: one interval group with an unknown week day, two exclusion
\* groups: the count error is raised, not the week day error.
C5_Witness ==
    /\ Checked
    /\ interval_time = Join(<<MUN, T0800, T1200>>, "-")
    /\ Len(SplitAll(exclude_roles, ";")) = 2
    /\ outcome = GroupCountMismatch

\* C4: each configuration string yields one group per ";"-delimited segment,
\* in order, empty and blank segments included, so that with equally many
\* segments the item arrays are the trimmed segments, and a rule whose
\* exclusion segment is empty or blank has no excluded principal.
C4_AllGroupsReturned ==
    (Checked /\ exclude_roles # NULLP
     /\ Len(SplitAll(interval_time, ";")) = Len(SplitAll(exclude_roles, ";")))
        => /\ igroups = Groups(interval_time)
           /\ parsed => /\ rgroups = Groups(exclude_roles)
                        /\ \A k \in 1..Len(intervals) :
                              Groups(exclude_roles)[k] = NULLP
                                  => intervals[k].nroles = 0

\* the entries of r's exclusion list that a search for principal compares
Compared(r, principal) ==
    {k \in 1..r.nroles : \A j \in 1..(k - 1) : r.roles[j] # principal}

\* every week day entry of every rule of policy was written by the parser
WeekDaysDefined(policy) ==
    \A i \in 1..Len(policy) : \A j \in 1..Len(policy[i].wday) : policy[i].wday[j] \in 0..6

\* C6: an exclusion group with empty or blank tokens between its commas is
\* parsed without error, every entry the search compares with the principal
\* is a name, and the verdict is the one the group gives with those tokens
\* removed.
C6_EmptyRoleEntriesInert ==
    (Checked /\ parsed /\ WeekDaysDefined(intervals))
        => /\ \A i \in consulted :
                (Lists(intervals[i], Today) /\ ~Inside(intervals[i], N1))
                    => \A k \in Compared(intervals[i], call.user_name) :
                          intervals[i].roles[k] \notin {NULLP, UNINIT}
           /\ outcome = IF Listing(intervals, Today) = {} THEN Allow
                        ELSE RuleVerdict(intervals[FirstOf(Listing(intervals, Today))],
                                         call.user_name, N1)

\* the names of the week days
WeekDayNames ==
    {<<"s", "u", "n">>, MON, <<"t", "u", "e">>, <<"w", "e", "d">>,
     <<"t", "h", "u">>, <<"f", "r", "i">>, SAT}

\* the comma-separated tokens of the week day list of interval group g
WeekDayTokens(g) ==
    {SplitAll(SplitAll(g, "-")[1], ",")[k] :
        k \in 1..(1 + CountChar(SplitAll(g, "-")[1], ","))}

\* C7: a week day list is accepted only if each of its comma-separated
\* tokens, trimmed, is a week day name, and fails with the unknown week day
\* error otherwise; after a successful parse a rule has at least one week
\* day entry and each of its nwday entries is the number in 0..6 of its token.
C7_WeekDayList ==
    (Checked /\ parsed)
        => \A i \in 1..Len(intervals) :
              /\ intervals[i].nwday >= 1
              /\ Len(intervals[i].wday) = intervals[i].nwday
              /\ \A j \in 1..Len(intervals[i].wday) : intervals[i].wday[j] \in 0..6
              /\ \A tok \in WeekDayTokens(igroups[i]) : trim(tok) \in WeekDayNames

\* C8: an interval group is accepted only if it has exactly three
\* "-"-separated parts; a group with fewer or more parts fails with the
\* malformed interval error, and no rule comes of it.
C8_ThreeParts ==
    /\ (Checked /\ parsed)
          => \A i \in 1..Len(igroups) : Len(SplitAll(igroups[i], "-")) = 3
    /\ (Checked /\ exclude_roles # NULLP
        /\ Len(SplitAll(interval_time, ";")) = 1
        /\ Len(SplitAll(exclude_roles, ";")) = 1
        /\ Len(SplitAll(interval_time, "-")) # 3)
          => outcome = MalformedInterval

\* the hook's result is r
SameResult(r) ==
    /\ outcome = r.outcome
    /\ intervals = r.intervals
    /\ igroups = r.igroups
    /\ rgroups = r.rgroups
    /\ consulted = r.consulted

\* C10: whatever calls came before, the rules built and the verdict of a call
\* are those its own configuration strings, principal and clock give in a
\* process whose tokenizers have never run; the cursor an earlier call left
\* behind is not read.
C10_HistoryIndependent ==
    phase = "done"
        => SameResult(block_access_checks(
                          call.status, call.user_name, call.now, interval_time,
                          ParseStage(interval_time, exclude_roles, NULLP, NULLP, <<>>),
                          NULLP, NULLP, ub))

\* the item array of a thread that runs the strtok_all loop on str alone, in a
\* process where strtok_all has not been called before
AloneItems(str) == strtok_all_loop(strtok_all(str, NULLP), <<>>).item

\* C9: two threads whose calls of the tokenizer interleave each end up with
\* the groups they get when running alone.
C9_ConcurrentParsing ==
    \A t \in Threads :
        cpc[t] \in {"done", "overrun"}
            => cpc[t] = "done" /\ citem[t] = AloneItems(cstr[t])

====
